---- MODULE Spec2Model ----
(***************************************************************************)
(* Density-convergence workflow of mpmorph.                                *)
(*   workflows.py  get_wf_density: validates the setup and builds the      *)
(*                 two-unit workflow  MDFW run0 -> initial_spawn.          *)
(*   mdtasks.py    SpawnMDFWTask, RescaleVolumeTask, GetPressureTask: the  *)
(*                 tasks run inside the units.                             *)
(* The orchestrator (FireWorks) is the environment: a unit is launched     *)
(* once all its parents completed, runs its tasks in order, fizzles when a *)
(* task raises, and on completion the units named in the action's          *)
(* `additions` are appended to the graph as children of the completing     *)
(* unit.  The spec it hands to run_task is taken to hold the "parents"     *)
(* entry that run_task reads, and the calculation locations relayed by     *)
(* PassCalcLocs are taken to reach every later unit of the chain.          *)
(* Floats are fixed-point: pressures and temperatures are integers,        *)
(* alpha and beta are counted in units of 1/One.                           *)
(***************************************************************************)
EXTENDS Integers, Sequences, FiniteSets, TLC

\* ---------------------------------------------------------------- bounds
MaxP == 2            \* raw pressures written by a simulation: -MaxP..MaxP
MaxThr == 1          \* pressure_threshold arguments: 1000 * (1..MaxThr)
MaxBudget == 1       \* max_rescales arguments: 0..MaxBudget
MaxFws == 4          \* units a job graph may hold
MaxCalls == 2        \* calls of get_wf_density
InitialVolume == 1000   \* cell volume of the seeding structure

\* ------------------------------------------------------ program constants
PressureUnitFactor == 1000     \* mdtasks.py:47   p[0] * 1000
SpawnInitialTemperature == 1   \* mdtasks.py:63   initial_temperature=1
TargetPressureDefault == 0     \* mdtasks.py:91   self.get("target_pressure", 0.0)
One == 1000000                 \* fixed-point unit of alpha and beta
AlphaDefault == 10             \* mdtasks.py:92   10e-6, in units of 1/One
BetaDefault == 1               \* mdtasks.py:93   10e-7, in units of 1/One
InitialSpawnCount == 0         \* workflows.py:65 spawn_count=0

RawPressures == (0 - MaxP)..MaxP
Pressures == {p * PressureUnitFactor : p \in RawPressures}
Thresholds == {k * PressureUnitFactor : k \in 1..MaxThr}
Budgets == 0..MaxBudget

Abs(x) == IF x < 0 THEN 0 - x ELSE x

VARIABLES
    phase,      \* "new": no workflow submitted yet; "built": get_wf_density returned
                \* one; "sampled": get_wf_structure_sampler returned its list
    calls,      \* calls of get_wf_density made so far
    last_call,  \* the last call of get_wf_density: its arguments, the directories
                \* it found, and its result: "none", "ValueError" or "Workflow"
    dirs,       \* directories that exist under calc_home
    fws,        \* the job graph's units: name, tasks, parents given to Firework(...)
    links,      \* the job graph's edges <<parent, child>>
    spawner,    \* per unit: the unit whose action added it, 0 for a unit of the workflow
    fw_state,   \* per unit: "PENDING", "RUNNING", "COMPLETED", "FIZZLED"
    fw_pc,      \* per unit: index of the next task to run
    fw_spec,    \* per unit: the spec passed to run_task (its "parents" entry)
    fw_action,  \* per unit: the FWAction gathered from its tasks
    files,      \* per unit: the files of its launch directory
    calc_locs,  \* calculation locations relayed by PassCalcLocs
    writing,    \* units whose simulation is writing its output files
    reads,      \* history: one record per copy of a finished calculation's files
    rescales,   \* history: one record per run of the rescale task
    sampler,    \* the call of get_wf_structure_sampler: its arguments, the
                \* structures sampled and the list of workflows returned
    log         \* history: one record per run of the decision task

vars == <<phase, calls, last_call, dirs, fws, links, spawner, fw_state, fw_pc, fw_spec,
          fw_action, files, calc_locs, writing, reads, rescales, sampler, log>>

\* ------------------------------------------------------------------ tasks
CopyVaspOutputs == [task |-> "CopyVaspOutputs"]

WriteVaspFromIOSet(structure, temperature) ==
    [task |-> "WriteVaspFromIOSet", structure |-> structure, temperature |-> temperature]

RunVaspCustodian(vasp_cmd, wall_time) ==
    [task |-> "RunVaspCustodian", vasp_cmd |-> vasp_cmd, wall_time |-> wall_time]

PassCalcLocs == [task |-> "PassCalcLocs"]

VaspToDbTask(db_file) == [task |-> "VaspToDbTask", db_file |-> db_file]

GetPressureTask == [task |-> "GetPressureTask", outcar_path |-> "./OUTCAR"]

CopyCalsHome(calc_home) == [task |-> "CopyCalsHome", calc_home |-> calc_home]

\* RescaleVolumeTask(initial_pressure=..., initial_temperature=...): the optional
\* parameters are not given, run_task fills in their defaults.
\* The optional parameters a RescaleVolumeTask was built with: given holds the
\* names passed, the other fields their values.
NoOptional ==
    [given |-> {}, target_temperature |-> 0, target_pressure |-> 0, alpha |-> 0,
     beta |-> 0]

RescaleVolumeTaskOf(initial_pressure, initial_temperature, optional) ==
    [task |-> "RescaleVolumeTask",
     initial_pressure |-> initial_pressure,
     initial_temperature |-> initial_temperature,
     given |-> optional.given,
     target_temperature |-> optional.target_temperature,
     target_pressure |-> optional.target_pressure,
     alpha |-> optional.alpha,
     beta |-> optional.beta]

\* Line 63: the task built with the two required parameters only.
RescaleVolumeTask(initial_pressure, initial_temperature) ==
    RescaleVolumeTaskOf(initial_pressure, initial_temperature, NoOptional)

\* SpawnMDFWTask(...) as get_wf_density builds it.
SpawnMDFWTask(pressure_threshold, max_rescales, wall_time, vasp_cmd, db_file, copy_calcs, calc_home, spawn_count) ==
    [task |-> "SpawnMDFWTask",
     pressure_threshold |-> pressure_threshold,
     max_rescales |-> max_rescales,
     wall_time |-> wall_time,
     vasp_cmd |-> vasp_cmd,
     db_file |-> db_file,
     copy_calcs |-> copy_calcs,
     calc_home |-> calc_home,
     spawn_count |-> spawn_count]

Firework(tasks, parents, name) == [name |-> name, tasks |-> tasks, parents |-> parents]

\* FWAction(stored_data=..., additions=...)
NoData == [keys |-> {}, pressure |-> 0, density_calculated |-> FALSE, avg_pres |-> 0]
FWAction(stored_data, additions) == [stored_data |-> stored_data, additions |-> additions]
NoAction == FWAction(NoData, <<>>)

NoFiles == [has |-> {}, POSCAR |-> 0, CONTCAR |-> 0, OUTCAR |-> 0,
            sampled |-> FALSE]

Ids == 1..Len(fws)
Parents(id) == {p \in Ids : <<p, id>> \in links}
Children(id) == {c \in Ids : <<id, c>> \in links}
CurrentTask(id) == fws[id].tasks[fw_pc[id]]
Running(id, name) ==
    /\ id \in Ids
    /\ fw_state[id] = "RUNNING"
    /\ fw_pc[id] <= Len(fws[id].tasks)
    /\ CurrentTask(id).task = name

\* No call of get_wf_structure_sampler was made.
NoSampling == [frames |-> 0, n |-> 0, steps_skip_first |-> 0, structures |-> <<>>,
               wfs |-> <<>>]

\* No call of get_wf_density was made yet.
NoCall ==
    [result |-> "none", structure_kind |-> "Structure", has_maker_params |-> FALSE,
     copy_calcs |-> FALSE, dirs_before |-> {}]

Init ==
    /\ phase = "new"
    /\ calls = 0
    /\ last_call = NoCall
    /\ dirs \in {{}, {"calc_home"}, {"calc_home", "calc_home/name"}}
    /\ fws = <<>>
    /\ links = {}
    /\ spawner = <<>>
    /\ fw_state = <<>>
    /\ fw_pc = <<>>
    /\ fw_spec = <<>>
    /\ fw_action = <<>>
    /\ files = <<>>
    /\ calc_locs = <<>>
    /\ writing = {}
    /\ reads = {}
    /\ rescales = {}
    /\ sampler = NoSampling
    /\ log = {}

\* ------------------------------------------------------- get_wf_density
DefaultWallTime == 19200       \* workflows.py:11 wall_time=19200
MaxTemp == 2                   \* temperature arguments: 1..MaxTemp
Temperatures == 1..MaxTemp

\* MDFW(structure=..., start_temp=temperature, ...): the simulation unit.
MDFW(structure, temperature, name, db_file, vasp_cmd, wall_time) ==
    Firework(<<WriteVaspFromIOSet(structure, temperature),
               RunVaspCustodian(vasp_cmd, wall_time),
               PassCalcLocs,
               VaspToDbTask(db_file)>>,
             {}, name)

\* Lines 33-40: the copy_calcs validation. "ok" means no ValueError.
CopyCalcsCheck(copy_calcs, existing) ==
    IF ~copy_calcs THEN "ok"
    ELSE IF "calc_home" \notin existing THEN "ValueError"
    ELSE IF "calc_home/name" \in existing THEN "ValueError"
    ELSE "ok"

\* Lines 39-40: os.mkdir(calc_home/name) once the copy_calcs validation passed.
DirsAfterMkdir(copy_calcs, existing) ==
    IF copy_calcs /\ CopyCalcsCheck(copy_calcs, existing) = "ok"
    THEN existing \cup {"calc_home/name"}
    ELSE existing

\* Lines 43-47: a composition dict needs amorphous_maker_params.
CompositionCheck(structure_kind, has_maker_params) ==
    IF structure_kind = "dict" /\ ~has_maker_params THEN "ValueError" ELSE "ok"

\* Lines 58-65: the task list of the initial_spawn unit.
InitialSpawnTasks(pressure_threshold, max_rescales, copy_calcs) ==
    <<CopyVaspOutputs>>
    \o (IF copy_calcs THEN <<CopyCalsHome("calc_home/name")>> ELSE <<>>)
    \o <<SpawnMDFWTask(pressure_threshold, max_rescales, DefaultWallTime,
                       ">>vasp_cmd<<", ">>db_file<<", copy_calcs,
                       IF copy_calcs THEN "calc_home/name" ELSE "calc_home",
                       InitialSpawnCount)>>

\* Mutant of InitialSpawnParents: the initial_spawn unit names no parent.
InitialSpawnNoParents == {}

\* Line 67: fw2 = Firework(t, parents=[fw1], name=name+"_initial_spawn")
InitialSpawnParents == {1}

\* Workflow([fw1, fw2]): the graph's edges are the parents the units name.
WorkflowLinks(units) ==
    {<<p, c>> : p \in 1..Len(units), c \in 1..Len(units)} \cap
    {pc \in (1..Len(units)) \X (1..Len(units)) : pc[1] \in units[pc[2]].parents}

\* The spec the orchestrator hands to run_task: "parents" lists the unit's parents.
SpecOf(parent_ids) == [parents |-> [i \in 1..Cardinality(parent_ids) |->
                          [fw_id |-> CHOOSE p \in parent_ids :
                              Cardinality({q \in parent_ids : q < p}) = i - 1]]]

\* The record kept of one call: what was passed, what was on disk, what came back.
Call(result, structure_kind, has_maker_params, copy_calcs, existing) ==
    [result |-> result, structure_kind |-> structure_kind,
     has_maker_params |-> has_maker_params, copy_calcs |-> copy_calcs,
     dirs_before |-> existing]

get_wf_density(structure_kind, has_maker_params, copy_calcs, temperature, pressure_threshold, max_rescales) ==
    /\ phase = "new"
    /\ calls < MaxCalls
    /\ calls' = calls + 1
    /\ dirs' = DirsAfterMkdir(copy_calcs, dirs)
    /\ IF CopyCalcsCheck(copy_calcs, dirs) = "ValueError"
          \/ CompositionCheck(structure_kind, has_maker_params) = "ValueError"
       THEN /\ last_call' = Call("ValueError", structure_kind, has_maker_params,
                                   copy_calcs, dirs)
            /\ UNCHANGED <<phase, fws, links, spawner, fw_state, fw_pc, fw_spec, fw_action,
                           files>>
       ELSE LET fw1 == MDFW(InitialVolume, temperature, "run0", ">>db_file<<",
                            ">>vasp_cmd<<", DefaultWallTime)
                fw2 == Firework(InitialSpawnTasks(pressure_threshold, max_rescales,
                                                  copy_calcs),
                                InitialSpawnParents, "initial_spawn")
                wf == <<fw1, fw2>>
            IN /\ last_call' = Call("Workflow", structure_kind, has_maker_params,
                                      copy_calcs, dirs)
               /\ phase' = "built"
               /\ fws' = wf
               /\ links' = WorkflowLinks(wf)
               /\ spawner' = <<0, 0>>
               /\ fw_state' = <<"PENDING", "PENDING">>
               /\ fw_pc' = <<1, 1>>
               /\ fw_spec' = <<SpecOf(fw1.parents), SpecOf(fw2.parents)>>
               /\ fw_action' = <<NoAction, NoAction>>
               /\ files' = <<NoFiles, NoFiles>>
    /\ UNCHANGED <<calc_locs, writing, reads, rescales, sampler, log>>

\* ---------------------------------------------- get_wf_structure_sampler
MaxFrames == 5                 \* frames of the trajectory: 1..MaxFrames
MaxSamples == 3                \* n: 0..MaxSamples
MaxSkip == 2                   \* steps_skip_first: 0..MaxSkip

\* get_sample_structures(xdatcar_path, n, steps_skip_first): n frames, evenly
\* spaced over the frames that follow the first steps_skip_first. A structure
\* is named by the number of its frame.
get_sample_structures(frames, n, steps_skip_first) ==
    [i \in 1..n |-> steps_skip_first + 1 + ((i - 1) * (frames - steps_skip_first)) \div n]

\* OptimizeFW(s, ..., parents=[...]) and StaticFW(s, ..., parents=[...]); fw_id is
\* the identity of the unit, parents the identities of the units it names.
OptimizeFW(structure, fw_id, parents) ==
    [name |-> "structure optimization", structure |-> structure, fw_id |-> fw_id,
     parents |-> parents]

StaticFW(structure, fw_id, parents) ==
    [name |-> "static", structure |-> structure, fw_id |-> fw_id, parents |-> parents]

\* Mutant of SamplerStaticParents: every static unit names the optimization of
\* the first structure.
SamplerStaticParentsFirst(fw1) == {1}

\* Line 87: parents=[fw1]
SamplerStaticParents(fw1) == {fw1.fw_id}

\* Lines 86-88: the workflow of the i-th structure s.
SamplerWorkflow(s, i) ==
    LET fw1 == OptimizeFW(s, 2 * i - 1, {})
        fw2 == StaticFW(s, 2 * i, SamplerStaticParents(fw1))
    IN [name |-> "structure_sampler", fws |-> <<fw1, fw2>>]

get_wf_structure_sampler(frames, n, steps_skip_first) ==
    /\ phase = "new"
    /\ n <= frames - steps_skip_first
    /\ LET structures == get_sample_structures(frames, n, steps_skip_first)
       IN sampler' = [frames |-> frames, n |-> n, steps_skip_first |-> steps_skip_first,
                      structures |-> structures,
                      wfs |-> [i \in 1..Len(structures) |->
                                  SamplerWorkflow(structures[i], i)]]
    /\ phase' = "sampled"
    /\ UNCHANGED <<calls, last_call, dirs, fws, links, spawner, fw_state, fw_pc, fw_spec,
                   fw_action, files, calc_locs, writing, reads, rescales, log>>

\* ------------------------------------------------------- the orchestrator
Set(f, id, v) == [f EXCEPT ![id] = v]

\* A unit is launched once every parent completed.
Launch(id) ==
    /\ phase = "built"
    /\ id \in Ids
    /\ fw_state[id] = "PENDING"
    /\ \A p \in Parents(id) : fw_state[p] = "COMPLETED"
    /\ fw_state' = Set(fw_state, id, "RUNNING")
    /\ fw_pc' = Set(fw_pc, id, 1)
    /\ UNCHANGED <<phase, calls, last_call, dirs, fws, links, spawner, fw_spec, fw_action,
                   files, calc_locs, writing, reads, rescales, sampler, log>>

\* Mutant of AdditionLinks: the new units are not chained to the unit that
\* returned them, they keep only the parents they name themselves.
AdditionLinksUnchained(id, additions, first) ==
    UNION {{<<p, first + i - 1>> : p \in additions[i].parents} : i \in 1..Len(additions)}

\* mdtasks.py line 75, additions=[new_fw]: the units an action adds become
\* children of the unit that returned it, next to the parents they name themselves.
AdditionLinks(id, additions, first) ==
    {<<id, first + i - 1>> : i \in 1..Len(additions)} \cup
    UNION {{<<p, first + i - 1>> : p \in additions[i].parents} : i \in 1..Len(additions)}

\* All tasks ran: the unit completes and its action's additions enter the graph.
Complete(id) ==
    /\ id \in Ids
    /\ fw_state[id] = "RUNNING"
    /\ fw_pc[id] > Len(fws[id].tasks)
    /\ LET additions == fw_action[id].additions
           n == Len(additions)
           first == Len(fws) + 1
       IN /\ Len(fws) + n <= MaxFws
          /\ fws' = fws \o additions
          /\ links' = links \cup AdditionLinks(id, additions, first)
          /\ spawner' = spawner \o [i \in 1..n |-> id]
          /\ fw_state' = Set(fw_state, id, "COMPLETED") \o [i \in 1..n |-> "PENDING"]
          /\ fw_pc' = fw_pc \o [i \in 1..n |-> 1]
          /\ fw_spec' = fw_spec \o [i \in 1..n |-> SpecOf({id} \cup additions[i].parents)]
          /\ fw_action' = fw_action \o [i \in 1..n |-> NoAction]
          /\ files' = files \o [i \in 1..n |-> NoFiles]
    /\ UNCHANGED <<phase, calls, last_call, dirs, calc_locs, writing, reads, rescales,
                   sampler, log>>

\* A task raised: the unit fizzles, its action is dropped.
Fizzle(id) ==
    /\ fw_state' = Set(fw_state, id, "FIZZLED")
    /\ UNCHANGED <<fw_pc, fw_action>>

\* A task returned: its action is merged and the next task is due.
Return(id, action) ==
    /\ fw_state' = fw_state
    /\ fw_pc' = Set(fw_pc, id, fw_pc[id] + 1)
    /\ fw_action' = Set(fw_action, id, action)

\* ------------------------------------------------------------ the tasks
Graph == <<phase, calls, last_call, fws, links, spawner, sampler>>
Static == <<Graph, rescales>>

\* MDFW's first task: the structure becomes the POSCAR of the launch directory.
RunWriteVaspFromIOSet(id) ==
    /\ Running(id, "WriteVaspFromIOSet")
    /\ files' = Set(files, id, [files[id] EXCEPT !.has = @ \cup {"POSCAR"},
                                                 !.POSCAR = CurrentTask(id).structure])
    /\ Return(id, fw_action[id])
    /\ UNCHANGED <<Static, dirs, fw_spec, calc_locs, writing, reads, log>>

\* RunVaspCustodian: the external simulation starts writing its output ...
RunVaspStart(id) ==
    /\ Running(id, "RunVaspCustodian")
    /\ id \notin writing
    /\ writing' = writing \cup {id}
    /\ UNCHANGED <<Static, dirs, fw_state, fw_pc, fw_spec, fw_action, files,
                   calc_locs, reads, log>>

\* ... and ends: CONTCAR holds the cell (the volume is fixed during the run),
\* OUTCAR the pressure series, whose trailing mean is raw_pressure. A run stopped
\* before its first step leaves an OUTCAR that holds no pressure: sampled is FALSE.
RunVaspFinish(id, raw_pressure, sampled) ==
    /\ Running(id, "RunVaspCustodian")
    /\ id \in writing
    /\ sampled \/ raw_pressure = 0
    /\ writing' = writing \ {id}
    /\ files' = Set(files, id, [files[id] EXCEPT !.has = @ \cup {"CONTCAR", "OUTCAR"},
                                                 !.CONTCAR = files[id].POSCAR,
                                                 !.OUTCAR = raw_pressure,
                                                 !.sampled = sampled])
    /\ Return(id, fw_action[id])
    /\ UNCHANGED <<Static, dirs, fw_spec, calc_locs, reads, log>>

\* PassCalcLocs: the launch directory is relayed to the units that follow.
RunPassCalcLocs(id) ==
    /\ Running(id, "PassCalcLocs")
    /\ calc_locs' = Append(calc_locs, id)
    /\ Return(id, fw_action[id])
    /\ UNCHANGED <<Static, dirs, fw_spec, files, writing, reads, log>>

\* VaspToDbTask: the result store is external.
RunVaspToDbTask(id) ==
    /\ Running(id, "VaspToDbTask")
    /\ Return(id, fw_action[id])
    /\ UNCHANGED <<Static, dirs, fw_spec, files, calc_locs, writing, reads, log>>

\* CopyVaspOutputs(calc_loc=True, contcar_to_poscar=True): the files of the last
\* relayed calculation are copied, its CONTCAR as POSCAR.
RunCopyVaspOutputs(id) ==
    /\ Running(id, "CopyVaspOutputs")
    /\ IF calc_locs = <<>> \/ "CONTCAR" \notin files[calc_locs[Len(calc_locs)]].has
       THEN /\ Fizzle(id)
            /\ UNCHANGED <<files, reads>>
       ELSE LET src == calc_locs[Len(calc_locs)]
            IN /\ files' = Set(files, id,
                               [has |-> {"POSCAR", "OUTCAR"},
                                POSCAR |-> files[src].CONTCAR,
                                CONTCAR |-> 0,
                                OUTCAR |-> files[src].OUTCAR,
                                sampled |-> files[src].sampled])
               /\ reads' = reads \cup {[reader |-> id, src |-> src,
                                        src_writing |-> src \in writing,
                                        src_state |-> fw_state[src]]}
               /\ Return(id, fw_action[id])
    /\ UNCHANGED <<Static, dirs, fw_spec, calc_locs, writing, log>>

\* CopyCalsHome(calc_home=..., run_name="run0"): the run is copied under calc_home.
RunCopyCalsHome(id) ==
    /\ Running(id, "CopyCalsHome")
    /\ dirs' = dirs \cup {"calc_home/name/run0"}
    /\ Return(id, fw_action[id])
    /\ UNCHANGED <<Static, fw_spec, files, calc_locs, writing, reads, log>>

\* parse_pressure(outcar_path, averaging_fraction)[0]: the trailing mean of the
\* pressure series in OUTCAR.
parse_pressure(dir) == dir.OUTCAR

\* parse_pressure raises when OUTCAR is absent or holds no pressure.
HasSamples(dir) == "OUTCAR" \in dir.has /\ dir.sampled

\* GetPressureTask.run_task, line 46-47: 'avg_pres': p[0] * 1000
AvgPres(dir) == parse_pressure(dir) * PressureUnitFactor

RunGetPressureTask(id) ==
    /\ Running(id, "GetPressureTask")
    /\ IF ~HasSamples(files[id])
       THEN Fizzle(id)
       ELSE Return(id, [fw_action[id] EXCEPT
                          !.stored_data.keys = @ \cup {"avg_pres"},
                          !.stored_data.avg_pres = AvgPres(files[id])])
    /\ UNCHANGED <<Static, dirs, fw_spec, files, calc_locs, writing, reads, log>>

\* RescaleVolume.by_thermo(scale='temperature')
ByThermoTemperature(volume, alpha, target_temperature, initial_temperature) ==
    (volume * (One + alpha * (target_temperature - initial_temperature))) \div One

\* RescaleVolume.by_thermo(scale='pressure')
ByThermoPressure(volume, beta, target_pressure, initial_pressure) ==
    (volume * (One - beta * (target_pressure - initial_pressure))) \div One

\* self.get(key, default) of a task.
Get(self, key, default) == IF key \in self.given THEN self[key] ELSE default

\* Mutant of RescaleSteps: the pressure correction is applied to the volume read,
\* not to the volume the thermal correction left.
RescaleStepsOnOriginal(self, volume) ==
    LET target_temperature == Get(self, "target_temperature", self.initial_temperature)
        target_pressure == Get(self, "target_pressure", TargetPressureDefault)
    IN [by_temperature |-> ByThermoTemperature(volume, Get(self, "alpha", AlphaDefault),
                                               target_temperature,
                                               self.initial_temperature),
        by_pressure |-> ByThermoPressure(volume, Get(self, "beta", BetaDefault),
                                         target_pressure, self.initial_pressure)]

\* Mutant of RescaleSteps: target_temperature defaults to 0, as target_pressure
\* does, instead of to initial_temperature.
RescaleStepsTargetZero(self, volume) ==
    LET target_temperature == Get(self, "target_temperature", TargetPressureDefault)
        target_pressure == Get(self, "target_pressure", TargetPressureDefault)
        by_temperature == ByThermoTemperature(volume, Get(self, "alpha", AlphaDefault),
                                              target_temperature,
                                              self.initial_temperature)
    IN [by_temperature |-> by_temperature,
        by_pressure |-> ByThermoPressure(by_temperature, Get(self, "beta", BetaDefault),
                                         target_pressure, self.initial_pressure)]

\* RescaleVolumeTask.run_task, lines 88-102: the volume of corr_vol after the
\* call of line 99 and after the call of line 102.
RescaleSteps(self, volume) ==
    LET initial_temperature == self.initial_temperature
        initial_pressure == self.initial_pressure
        target_temperature == Get(self, "target_temperature", initial_temperature)
        target_pressure == Get(self, "target_pressure", TargetPressureDefault)
        alpha == Get(self, "alpha", AlphaDefault)
        beta == Get(self, "beta", BetaDefault)
        by_temperature == ByThermoTemperature(volume, alpha, target_temperature,
                                              initial_temperature)
    IN [by_temperature |-> by_temperature,
        by_pressure |-> ByThermoPressure(by_temperature, beta, target_pressure,
                                         initial_pressure)]

\* Line 104: the volume written back to ./POSCAR.
RescaledVolume(self, volume) == RescaleSteps(self, volume).by_pressure

RunRescaleVolumeTask(id) ==
    /\ Running(id, "RescaleVolumeTask")
    /\ IF "POSCAR" \notin files[id].has \/ files[id].POSCAR <= 0
       THEN /\ Fizzle(id)
            /\ UNCHANGED <<files, rescales>>
       ELSE /\ files' = Set(files, id, [files[id] EXCEPT !.POSCAR =
                                          RescaledVolume(CurrentTask(id), files[id].POSCAR)])
            /\ rescales' = rescales \cup
                   {[fw |-> id, self |-> CurrentTask(id),
                     volume_before |-> files[id].POSCAR,
                     by_temperature |->
                         RescaleSteps(CurrentTask(id), files[id].POSCAR).by_temperature]}
            /\ Return(id, fw_action[id])
    /\ UNCHANGED <<Graph, dirs, fw_spec, calc_locs, writing, reads, log>>

\* ------------------------------------------------- SpawnMDFWTask.run_task
\* Lines 63 and 71 read the name avg_pres, which run_task never assigns and the
\* module never binds. The outcomes of the read: NameError, which is what the
\* module as written gives; or, where the enclosing scope holds the name when the
\* task runs, the value bound there, which nothing ties to the files of the cycle.
AvgPresLookup ==
    {[bound |-> FALSE, value |-> 0]} \cup {[bound |-> TRUE, value |-> p] : p \in Pressures}

\* Lines 60-69: the task list t of the unit to spawn.
SpawnedTasks(self, avg_pres) ==
    <<CopyVaspOutputs,
      RescaleVolumeTask(avg_pres, SpawnInitialTemperature),
      RunVaspCustodian(self.vasp_cmd, self.wall_time),
      PassCalcLocs,
      VaspToDbTask(self.db_file),
      GetPressureTask>>

\* Line 71: if avg_pres > self["pressure_threshold"]
SpawnCondition(self, avg_pres) == avg_pres > self.pressure_threshold

\* Line 72: parents.extend(t) appends t to the list held by fw_spec in place ...
ListExtend(parents, t) == parents \o t

\* ... and returns None: Firework(t, parents=None) names no parent.
NewFwParents(parents, t) == {}

\* Line 74: FWAction(stored_data={'pressure': avg_pres, 'density_calculated': True})
ConvergedAction(avg_pres) ==
    FWAction([NoData EXCEPT !.keys = {"pressure", "density_calculated"},
                            !.pressure = avg_pres,
                            !.density_calculated = TRUE],
             <<>>)

\* Mutant of SpawnAction: the unit is added twice.
SpawnActionTwice(avg_pres, new_fw) ==
    FWAction([NoData EXCEPT !.keys = {"pressure"}, !.pressure = avg_pres],
             <<new_fw, new_fw>>)

\* Line 75: FWAction(stored_data={'pressure': avg_pres}, additions=[new_fw])
SpawnAction(avg_pres, new_fw) ==
    FWAction([NoData EXCEPT !.keys = {"pressure"}, !.pressure = avg_pres], <<new_fw>>)

\* run_task(self, fw_spec): what it raises, the action it returns and the spec
\* it leaves behind, for one outcome of the avg_pres lookup.
SpawnMDFWTask_run_task(self, spec, lookup) ==
    IF ~lookup.bound
    THEN [error |-> "NameError", action |-> NoAction, spec |-> spec]
    ELSE LET avg_pres == lookup.value
             parents == spec.parents
             t == SpawnedTasks(self, avg_pres)
         IN IF SpawnCondition(self, avg_pres)
            THEN [error |-> "none",
                  action |-> SpawnAction(avg_pres,
                                Firework(t, NewFwParents(parents, t), "Unnamed FW")),
                  spec |-> [spec EXCEPT !.parents = ListExtend(parents, t)]]
            ELSE [error |-> "none", action |-> ConvergedAction(avg_pres), spec |-> spec]

\* The orchestrator keeps the stored data of every task of the unit.
MergeAction(old, new) ==
    FWAction([keys |-> old.stored_data.keys \cup new.stored_data.keys,
              pressure |-> IF "pressure" \in new.stored_data.keys
                           THEN new.stored_data.pressure ELSE old.stored_data.pressure,
              density_calculated |-> IF "density_calculated" \in new.stored_data.keys
                                     THEN new.stored_data.density_calculated
                                     ELSE old.stored_data.density_calculated,
              avg_pres |-> IF "avg_pres" \in new.stored_data.keys
                           THEN new.stored_data.avg_pres ELSE old.stored_data.avg_pres],
             new.additions)

RunSpawnMDFWTask(id, lookup) ==
    /\ Running(id, "SpawnMDFWTask")
    /\ LET self == CurrentTask(id)
           r == SpawnMDFWTask_run_task(self, fw_spec[id], lookup)
       IN /\ IF r.error # "none"
             THEN Fizzle(id)
             ELSE Return(id, MergeAction(fw_action[id], r.action))
          /\ fw_spec' = Set(fw_spec, id, r.spec)
          /\ log' = log \cup {[fw |-> id,
                               self |-> self,
                               has_sample |-> HasSamples(files[id]),
                               measured |-> AvgPres(files[id]),
                               lookup |-> lookup,
                               error |-> r.error,
                               action |-> r.action]}
    /\ UNCHANGED <<Static, dirs, files, calc_locs, writing, reads>>

\* ------------------------------------------------------------------ Next
Build ==
    \E structure_kind \in {"Structure", "dict"}, has_maker_params \in BOOLEAN,
       copy_calcs \in BOOLEAN, temperature \in Temperatures,
       pressure_threshold \in Thresholds, max_rescales \in Budgets :
        get_wf_density(structure_kind, has_maker_params, copy_calcs, temperature,
                       pressure_threshold, max_rescales)

Sample ==
    \E frames \in 1..MaxFrames, n \in 0..MaxSamples, steps_skip_first \in 0..MaxSkip :
        get_wf_structure_sampler(frames, n, steps_skip_first)

Next ==
    \/ Build
    \/ Sample
    \/ \E id \in Ids : Launch(id)
    \/ \E id \in Ids : RunWriteVaspFromIOSet(id)
    \/ \E id \in Ids : RunVaspStart(id)
    \/ \E id \in Ids, raw_pressure \in RawPressures, sampled \in BOOLEAN :
           RunVaspFinish(id, raw_pressure, sampled)
    \/ \E id \in Ids : RunPassCalcLocs(id)
    \/ \E id \in Ids : RunVaspToDbTask(id)
    \/ \E id \in Ids : RunCopyVaspOutputs(id)
    \/ \E id \in Ids : RunCopyCalsHome(id)
    \/ \E id \in Ids : RunGetPressureTask(id)
    \/ \E id \in Ids : RunRescaleVolumeTask(id)
    \/ \E id \in Ids, lookup \in AvgPresLookup : RunSpawnMDFWTask(id, lookup)
    \/ \E id \in Ids : Complete(id)

Spec == Init /\ [][Next]_vars

\* ------------------------------------------- RescaleVolumeTask on its own
\* A unit made of one RescaleVolumeTask, built with any parameters, run in a
\* directory that holds a POSCAR.
MaxRescaleT == 2               \* temperatures: 1000, ..., 1000 * MaxRescaleT
MaxRescaleP == 1               \* pressures: multiples of 50000 up to MaxRescaleP
RescaleTemperatures == {1000 * k : k \in 1..MaxRescaleT}
RescalePressures == {50000 * k : k \in (0 - MaxRescaleP)..MaxRescaleP}
Volumes == {InitialVolume, InitialVolume \div 2}

OptionalNames == {"target_temperature", "target_pressure", "alpha", "beta"}
Optionals ==
    {o \in [given : SUBSET OptionalNames,
            target_temperature : RescaleTemperatures \cup {0},
            target_pressure : RescalePressures,
            alpha : {0, 2 * AlphaDefault},
            beta : {0, 2 * BetaDefault}] :
        /\ ("target_temperature" \in o.given) = (o.target_temperature # 0)
        /\ "target_pressure" \notin o.given => o.target_pressure = 0
        /\ ("alpha" \in o.given) = (o.alpha # 0)
        /\ ("beta" \in o.given) = (o.beta # 0)}

InitRescale ==
    /\ phase = "built"
    /\ calls = 0
    /\ last_call = NoCall
    /\ dirs = {}
    /\ fws \in {<<Firework(<<RescaleVolumeTaskOf(initial_pressure, initial_temperature,
                                                 optional)>>, {}, "rescale")>> :
                    initial_pressure \in RescalePressures,
                    initial_temperature \in RescaleTemperatures,
                    optional \in Optionals}
    /\ links = {}
    /\ spawner = <<0>>
    /\ fw_state = <<"PENDING">>
    /\ fw_pc = <<1>>
    /\ fw_spec = <<SpecOf({})>>
    /\ fw_action = <<NoAction>>
    /\ files \in {<<[NoFiles EXCEPT !.has = {"POSCAR"}, !.POSCAR = volume]>> :
                      volume \in Volumes}
    /\ calc_locs = <<>>
    /\ writing = {}
    /\ reads = {}
    /\ rescales = {}
    /\ sampler = NoSampling
    /\ log = {}

NextRescale ==
    \/ \E id \in Ids : Launch(id)
    \/ \E id \in Ids : RunRescaleVolumeTask(id)
    \/ \E id \in Ids : Complete(id)

SpecRescale == InitRescale /\ [][NextRescale]_vars

\* ============================================================== the claims
\* Notions the claims are stated in.
TaskNames(unit) == [i \in DOMAIN unit.tasks |-> unit.tasks[i].task]
HasTask(unit, name) == \E i \in DOMAIN unit.tasks : unit.tasks[i].task = name
TaskOf(unit, name) == unit.tasks[CHOOSE i \in DOMAIN unit.tasks : unit.tasks[i].task = name]

\* A cycle is a unit that runs a simulation; it is executed once the run ended.
Cycles == {id \in Ids : HasTask(fws[id], "RunVaspCustodian")}
CyclesExecuted == {id \in Cycles : "CONTCAR" \in files[id].has}

\* The state the chain was started with: the decision task get_wf_density built.
ChainState == TaskOf(fws[2], "SpawnMDFWTask")

\* A decision run that read the pressure measured on the files of its cycle.
ReadsSample(e) == e.has_sample /\ e.lookup.bound /\ e.lookup.value = e.measured
Converged(e) == Abs(e.measured - TargetPressureDefault) <= e.self.pressure_threshold
BudgetLeft(e) == e.self.spawn_count < e.self.max_rescales
Spawns(e) == e.error = "none" /\ e.action.additions # <<>>
ReportsConverged(e) ==
    /\ e.error = "none"
    /\ "density_calculated" \in e.action.stored_data.keys
    /\ e.action.stored_data.density_calculated
ReportsExhausted(e) ==
    /\ e.error = "none"
    /\ "density_calculated" \in e.action.stored_data.keys
    /\ ~e.action.stored_data.density_calculated
ExhaustedAction(pressure) ==
    FWAction([NoData EXCEPT !.keys = {"pressure", "density_calculated"},
                            !.pressure = pressure,
                            !.density_calculated = FALSE],
             <<>>)

TerminalConverged ==
    \E id \in Ids : /\ fw_state[id] = "COMPLETED"
                    /\ "density_calculated" \in fw_action[id].stored_data.keys
                    /\ fw_action[id].stored_data.density_calculated
TerminalBudgetExhausted ==
    \E id \in Ids : /\ fw_state[id] = "COMPLETED"
                    /\ "density_calculated" \in fw_action[id].stored_data.keys
                    /\ ~fw_action[id].stored_data.density_calculated
ChainStopped == phase = "built" /\ \A id \in Ids : fw_state[id] = "COMPLETED"
C5_ThresholdBeforeBudget ==
    \A e \in log :
        /\ (e.has_sample /\ Converged(e) /\ ~BudgetLeft(e)) =>
               e.error = "none" /\ e.action = ConvergedAction(e.measured)
        /\ ReportsExhausted(e) => ~Converged(e)

\* The units an action added, and the decision run that asked for each.
Spawned == {n \in Ids : spawner[n] # 0}
DecisionOf(n) == {e \in log : e.fw = spawner[n]}

IsStep(name) ==
    name \in {"CopyVaspOutputs", "RescaleVolumeTask", "RunVaspCustodian",
              "GetPressureTask", "SpawnMDFWTask"}
Steps(unit) == SelectSeq(TaskNames(unit), IsStep)
CycleOf(id) ==
    IF HasTask(fws[id], "RunVaspCustodian") \/ Parents(id) = {}
    THEN id
    ELSE CHOOSE p \in Parents(id) : TRUE
ReadingCycles(src) == {CycleOf(r.reader) : r \in {x \in reads : x.src = src}} \ {src}
RunningUnits == {id \in Ids : fw_state[id] = "RUNNING"}

C12_RejectsInvalidSetup ==
    /\ last_call.result = "ValueError" => fws = <<>>
    /\ last_call.result = "Workflow" =>
           /\ ~(last_call.copy_calcs /\ "calc_home/name" \in last_call.dirs_before)
           /\ ~(last_call.structure_kind = "dict" /\ ~last_call.has_maker_params)
           /\ ~(last_call.structure_kind = "Structure" /\ last_call.has_maker_params)

\* C19: a call of get_wf_density that raised ValueError left the directories as
\* it found them.
C19_ValueErrorLeavesNoTrace ==
    last_call.result = "ValueError" => dirs = last_call.dirs_before

\* What one run of the decision step ended with.
EndsTerminal(e) ==
    /\ e.error = "none"
    /\ "density_calculated" \in e.action.stored_data.keys
    /\ e.action.additions = <<>>
EndsSpawning(e) ==
    /\ e.error = "none"
    /\ "density_calculated" \notin e.action.stored_data.keys
    /\ e.action.additions # <<>>
EndsInError(e) == e.error # "none" /\ e.action = NoAction

PositionOf(unit, name) ==
    IF HasTask(unit, name)
    THEN CHOOSE i \in DOMAIN unit.tasks : unit.tasks[i].task = name
    ELSE 0

\* C13: the pressure of the cycle's simulation is measured before the decision:
\* the unit that decides has run the pressure step first, the value the decision
\* compares with the threshold is that measurement, and so is the
\* initial_pressure of the rescale step of the cycle it spawns.
C13_MeasuredBeforeDecision ==
    /\ \A e \in log :
           /\ 0 < PositionOf(fws[e.fw], "GetPressureTask")
           /\ PositionOf(fws[e.fw], "GetPressureTask")
                  < PositionOf(fws[e.fw], "SpawnMDFWTask")
           /\ ReadsSample(e)
    /\ \A n \in Spawned :
           \A e \in DecisionOf(n) :
               TaskOf(fws[n], "RescaleVolumeTask").initial_pressure = e.measured

\* The temperature the chain simulates at: the one get_wf_density was given.
ChainTemperature == TaskOf(fws[1], "WriteVaspFromIOSet").temperature

TargetTemperature(r) ==
    IF "target_temperature" \in r.self.given
    THEN r.self.target_temperature ELSE r.self.initial_temperature
TargetPressure(r) ==
    IF "target_pressure" \in r.self.given THEN r.self.target_pressure ELSE 0
Alpha(r) == IF "alpha" \in r.self.given THEN r.self.alpha ELSE AlphaDefault
Beta(r) == IF "beta" \in r.self.given THEN r.self.beta ELSE BetaDefault
ThermalFactor(r) == One + Alpha(r) * (TargetTemperature(r) - r.self.initial_temperature)
PressureFactor(r) == One - Beta(r) * (TargetPressure(r) - r.self.initial_pressure)
Written(r) == files[r.fw].POSCAR

\* C15: the rescale task applies the thermal correction to the volume it read,
\* the pressure correction to the result, and writes that back:
\* volume_after = volume_before * (1 + alpha * (Tt - Ti)) * (1 - beta * (Pt - Pi)),
\* target_pressure defaulting to 0 and target_temperature to initial_temperature.
C15_ThermalThenPressure ==
    \A r \in rescales :
        /\ r.by_temperature = (r.volume_before * ThermalFactor(r)) \div One
        /\ Written(r) = (((r.volume_before * ThermalFactor(r)) \div One)
                            * PressureFactor(r)) \div One

\* C15 witness: a run in which both corrections changed the volume, with the
\* target pressure left to its default.
C15_Witness ==
    \E r \in rescales :
        /\ "target_pressure" \notin r.self.given
        /\ r.by_temperature # r.volume_before
        /\ Written(r) # r.by_temperature

\* C16: with target_temperature = initial_temperature the thermal step leaves
\* the volume as it was, with target_pressure = initial_pressure the pressure
\* step does, and with both the task writes back the volume it read.
C16_IdentityLaw ==
    \A r \in rescales :
        /\ TargetTemperature(r) = r.self.initial_temperature =>
               r.by_temperature = r.volume_before
        /\ TargetPressure(r) = r.self.initial_pressure =>
               Written(r) = r.by_temperature
        /\ (/\ TargetTemperature(r) = r.self.initial_temperature
            /\ TargetPressure(r) = r.self.initial_pressure) =>
               Written(r) = r.volume_before

\* C16 witness: a run with both equalities, at a pressure other than zero.
C16_Witness ==
    \E r \in rescales :
        /\ TargetTemperature(r) = r.self.initial_temperature
        /\ TargetPressure(r) = r.self.initial_pressure
        /\ r.self.initial_pressure # 0
        /\ Written(r) = r.volume_before

\* The units one unit's action added.
SpawnedBy(id) == {n \in Spawned : spawner[n] = id}

UnitIds(wf) == {wf.fws[k].fw_id : k \in DOMAIN wf.fws}

\* C18: get_wf_structure_sampler returns one workflow per sampled structure, n
\* for n structures; each holds two units, the optimization of the structure,
\* with no parent, and the static evaluation of the same structure, whose only
\* parent is that optimization; no unit of one workflow is a unit of another or
\* names one as its parent.
C18_OneGraphPerStructure ==
    phase = "sampled" =>
        /\ Len(sampler.structures) = sampler.n
        /\ Len(sampler.wfs) = Len(sampler.structures)
        /\ \A i \in DOMAIN sampler.wfs :
               LET wf == sampler.wfs[i]
               IN /\ Len(wf.fws) = 2
                  /\ wf.fws[1].name = "structure optimization"
                  /\ wf.fws[1].structure = sampler.structures[i]
                  /\ wf.fws[1].parents = {}
                  /\ wf.fws[2].name = "static"
                  /\ wf.fws[2].structure = sampler.structures[i]
                  /\ wf.fws[2].parents = {wf.fws[1].fw_id}
                  /\ wf.fws[1].fw_id # wf.fws[2].fw_id
        /\ \A i, j \in DOMAIN sampler.wfs :
               i # j =>
                   /\ UnitIds(sampler.wfs[i]) \cap UnitIds(sampler.wfs[j]) = {}
                   /\ \A k \in DOMAIN sampler.wfs[i].fws :
                          sampler.wfs[i].fws[k].parents \cap UnitIds(sampler.wfs[j]) = {}

\* C18 witness: a call that sampled the most structures returned its workflows.
C18_Witness ==
    /\ phase = "sampled"
    /\ sampler.n = MaxSamples
    /\ sampler.steps_skip_first > 0
    /\ Len(sampler.wfs) = MaxSamples

====
